---- MODULE Spec2Model ----
(***************************************************************************)
(* ChatSphere front end: the socket module (socket/socket.js), the Chat    *)
(* page (pages/Chat.jsx) and the ChatWindow component                       *)
(* (components/ChatWindow.jsx), as one state machine.                       *)
(*                                                                          *)
(* A React state update, the render it causes and the effects of that       *)
(* render (cleanup of the previous effect, then the new effect) are one     *)
(* atomic action: the handlers below are the only suspension points, as in  *)
(* the single-threaded event loop the code runs on.                         *)
(***************************************************************************)
EXTENDS Integers, Sequences, FiniteSets, TLC

\* ------------------------------------------------------------------ bounds
MaxSockets == 3        \* socket objects ever created by io()
MaxBuffer == 3         \* packets a socket holds in its sendBuffer
MaxMsgs == 2           \* length of the displayed message list
MaxChats == 2          \* length of the conversation list
MaxPending == 1        \* history fetches in flight per conversation
MaxStops == 2          \* typing_stop signals counted per conversation

\* ------------------------------------------------------- program constants
reconnectionAttempts == 5
PreviewLen == 60

\* ------------------------------------------------------------------ values
NoSocket == 0                      \* `let socket = null`: no socket object
Null == [null |-> TRUE]            \* a JS null where an object is expected
Undefined == [undefined |-> TRUE]  \* a JS undefined where an object is expected
NoToken == "undefined"             \* getAccessToken() with no cookie set
NullDate == "null"                 \* a missing last_message_at
Tokens == {"t1", "t2"}
ChatIds == {1, 2}
Users == {"me", "u1", "u2"}
currentUser == "me"                \* useAuth().user._id
Inputs == {<<>>, <<" ">>, <<" ", "h", "i">>}

VARIABLES
    socket,             \* socket.js: the module-level `socket` (NoSocket or a socket object)
    sockets,            \* the socket objects created by io(), by object number
    lastCall,           \* the last call of the socket module and the branch it took
    mounted,            \* whether the Chat page is mounted
    chats,              \* Chat: the conversation list
    selectedChat,       \* Chat: the selected conversation (Null or a chat object)
    selectedEntry,      \* index in chats of the object that is selectedChat (0: none)
    messages,           \* Chat: the displayed message list
    loadingChats,       \* Chat: loadingChats
    chatsFetch,         \* whether chatApi.getChats() is in flight
    msgFetches,         \* messageApi.getMessages(chatId) calls in flight, per chatId
    newMessageHandler,  \* the registered new_message handler and what it closes over
    joinCleanup,        \* the cleanup of the join/leave effect and what it closes over
    input,              \* ChatWindow: input
    sending,            \* ChatWindow: sending
    typingUsers,        \* ChatWindow: typingUsers
    typingTimeoutRef,   \* ChatWindow: typingTimeoutRef.current (Null or a timer)
    timers,             \* the setTimeout callbacks still pending, each with its closure
    typingHandler,      \* the registered user_typing handler and what it closes over
    sends,              \* messageApi.sendMessage calls in flight, each with its closure
    typingStarts,       \* conversations a typing_start was emitted for
    typingStops,        \* typing_stop signals emitted per conversation since its
                        \* last typing_start
    typingSignalled,    \* history: the users whose latest user_typing signal for
                        \* the selected conversation, among those received
                        \* since it was selected, had is_typing true
    typingCleared,      \* history: whether the last change of selection found
                        \* the typing set non-empty
    lateSignals,        \* history: the signals emitted, since Chat last mounted,
                        \* on a socket that socket.disconnect() had closed
    lastSend            \* history: how the last send-message request of the
                        \* mounted page ended, if nothing was typed since

sockVars == <<socket, sockets, lastCall>>
chatVars == <<mounted, chats, selectedChat, selectedEntry, messages, loadingChats,
              chatsFetch, msgFetches, newMessageHandler, joinCleanup>>
winVars == <<input, sending, typingUsers, typingTimeoutRef, timers,
             typingHandler, sends, typingStarts, typingStops, typingSignalled,
             typingCleared,
             lateSignals, lastSend>>
vars == <<socket, sockets, lastCall, mounted, chats, selectedChat, selectedEntry,
          messages, loadingChats, chatsFetch, msgFetches, newMessageHandler,
          joinCleanup, input, sending, typingUsers, typingTimeoutRef, timers,
          typingHandler, sends, typingStarts, typingStops, typingSignalled,
          typingCleared,
          lateSignals, lastSend>>

\* ------------------------------------------------------- socket.io client
\* A socket object as io(SOCKET_URL, {auth, reconnection: true,
\* reconnectionAttempts: 5, ...}) returns it: it starts opening the
\* connection at once.  rooms is the set of rooms the server holds for the
\* connection; it is empty whenever the connection is not established.
NewSocket(token) ==
    [state |-> "opening", auth |-> token, attempts |-> 0,
     sendBuffer |-> <<>>, rooms |-> {}]

\* The server's handling of one client-to-server signal.
Deliver(rooms, sig) ==
    IF sig.ev = "join_chat" THEN rooms \cup {sig.chat_id}
    ELSE IF sig.ev = "leave_chat" THEN rooms \ {sig.chat_id}
    ELSE rooms

RECURSIVE DeliverAll(_, _)
DeliverAll(rooms, buf) ==
    IF buf = <<>> THEN rooms
    ELSE DeliverAll(Deliver(rooms, Head(buf)), Tail(buf))

\* socket.emit(ev, {chat_id}): sent when connected, buffered otherwise.  The
\* buffer of a socket closed by socket.disconnect() is never flushed: what
\* is emitted on a closed socket (or on one collected since) is lost.
Emit(socks, s, sig) ==
    IF s \notin DOMAIN socks \/ socks[s].state = "closed" THEN socks
    ELSE IF socks[s].state = "connected"
    THEN [socks EXCEPT ![s].rooms = Deliver(@, sig)]
    ELSE [socks EXCEPT ![s].sendBuffer = Append(@, sig)]

\* The heap of socket objects: object number -> object.
NoSockets == [s \in {} |-> Null]

Allocate(socks, sock) ==
    LET id == CHOOSE n \in 1..(Cardinality(DOMAIN socks) + 1) : n \notin DOMAIN socks
    IN  [id |-> id,
         sockets |-> [s \in DOMAIN socks \cup {id} |->
                         IF s = id THEN sock ELSE socks[s]]]

\* The heap without the closed sockets that nothing in `refs` refers to.
Collect(socks, refs) ==
    [s \in {t \in DOMAIN socks : socks[t].state # "closed" \/ t \in refs} |->
        socks[s]]

\* The signal ev, if emitting it on socket s is an emit on a socket that
\* socket.disconnect() has closed.
Late(socks, s, ev) ==
    IF s \in DOMAIN socks /\ socks[s].state = "closed" THEN {ev} ELSE {}

\* Whether every sendBuffer of socks is within the model's bound.
WithinBuffers(socks) ==
    \A s \in DOMAIN socks : Len(socks[s].sendBuffer) <= MaxBuffer

\* A failed automatic attempt, mutated: the attempt cap is never applied.
AfterFailedAttemptNoCap(sock) ==
    [sock EXCEPT !.attempts = @ + 1]

\* The socket after a failed automatic attempt: the attempt is counted, and
\* with the budget of reconnectionAttempts used up the manager gives up.
AfterFailedAttempt(sock) ==
    [sock EXCEPT !.attempts = @ + 1,
                 !.state = IF sock.attempts + 1 >= reconnectionAttempts
                           THEN "failed" ELSE "reconnecting"]

\* "connect": the connection is established (first open or a reconnection);
\* the backoff is reset and the sendBuffer is flushed in order.
ConnectOk(s) ==
    /\ sockets[s].state \in {"opening", "reconnecting"}
    /\ sockets' = [sockets EXCEPT ![s] =
            [@ EXCEPT !.state = "connected", !.attempts = 0,
                      !.rooms = DeliverAll({}, sockets[s].sendBuffer),
                      !.sendBuffer = <<>>]]
    /\ UNCHANGED <<socket, lastCall>>
    /\ UNCHANGED chatVars
    /\ UNCHANGED winVars

\* "connect_error" on the first open: automatic reconnection starts.
ConnectError(s) ==
    /\ sockets[s].state = "opening"
    /\ sockets' = [sockets EXCEPT ![s].state = "reconnecting"]
    /\ UNCHANGED <<socket, lastCall>>
    /\ UNCHANGED chatVars
    /\ UNCHANGED winVars

\* An automatic reconnection attempt fails.
RetryFail(s) ==
    /\ sockets[s].state = "reconnecting"
    /\ sockets' = [sockets EXCEPT ![s] = AfterFailedAttempt(@)]
    /\ UNCHANGED <<socket, lastCall>>
    /\ UNCHANGED chatVars
    /\ UNCHANGED winVars

\* "disconnect" for a transport reason: the server drops the connection's
\* rooms and automatic reconnection starts.
TransportLost(s) ==
    /\ sockets[s].state = "connected"
    /\ sockets' = [sockets EXCEPT ![s].state = "reconnecting", ![s].rooms = {}]
    /\ UNCHANGED <<socket, lastCall>>
    /\ UNCHANGED chatVars
    /\ UNCHANGED winVars

\* ------------------------------------------------------- socket/socket.js
\* connectSocket, mutated: the `if (socket) return socket` guard is missing.
connectSocketNoGuard(sock, socks, token) ==
    [socket |-> Allocate(socks, NewSocket(token)).id,
     sockets |-> Allocate(socks, NewSocket(token)).sockets,
     call |-> IF sock # NoSocket THEN "connect:existing" ELSE "connect:new"]

\* connectSocket(token), on the module state (sock, socks).
connectSocket(sock, socks, token) ==
    IF sock # NoSocket
    THEN [socket |-> sock, sockets |-> socks, call |-> "connect:existing"]
    ELSE [socket |-> Allocate(socks, NewSocket(token)).id,
          sockets |-> Allocate(socks, NewSocket(token)).sockets,
          call |-> "connect:new"]

\* socket.disconnect(): the manager closes, its backoff is reset, the server
\* drops the connection's rooms; nothing reopens the socket.
Closed(sock) ==
    [sock EXCEPT !.state = "closed", !.attempts = 0, !.rooms = {},
                 !.sendBuffer = <<>>]

\* disconnectSocket, mutated: the `if (socket)` guard is missing, so that
\* socket.disconnect() on null throws a TypeError.
disconnectSocketNoGuard(sock, socks) ==
    IF sock # NoSocket
    THEN [socket |-> NoSocket,
          sockets |-> [socks EXCEPT ![sock] = Closed(@)],
          call |-> "disconnect:live"]
    ELSE [socket |-> sock, sockets |-> socks, call |-> "disconnect:throws"]

\* disconnectSocket(), on the module state (sock, socks).
disconnectSocket(sock, socks) ==
    IF sock # NoSocket
    THEN [socket |-> NoSocket,
          sockets |-> [socks EXCEPT ![sock] = Closed(@)],
          call |-> "disconnect:live"]
    ELSE [socket |-> sock, sockets |-> socks, call |-> "disconnect:none"]

\* A caller of the module calls connectSocket(token).
CallConnect(token) ==
    /\ socket = NoSocket => Cardinality(DOMAIN sockets) < MaxSockets
    /\ LET r == connectSocket(socket, sockets, token) IN
        /\ socket' = r.socket
        /\ sockets' = r.sockets
        /\ lastCall' = r.call
    /\ UNCHANGED chatVars
    /\ UNCHANGED winVars

\* A caller of the module calls disconnectSocket().
CallDisconnect ==
    /\ LET r == disconnectSocket(socket, sockets) IN
        /\ socket' = r.socket
        /\ sockets' = r.sockets
        /\ lastCall' = r.call
    /\ UNCHANGED chatVars
    /\ UNCHANGED winVars

\* ------------------------------------------------------------ server data
Str(chars) == [chars |-> chars]

\* String.prototype.slice(0, n)
Slice(str, n) ==
    Str(SubSeq(str.chars, 1, IF Len(str.chars) < n THEN Len(str.chars) ELSE n))

\* A conversation object as the REST API returns it.
Chat(id) ==
    [_id |-> id, last_message_preview |-> Null, last_message_at |-> NullDate]

\* A message record as the REST API and the new_message event carry it.
Msg(id, chat, content, at) ==
    [_id |-> id, chat_id |-> chat, content |-> content, created_at |-> at]

ShortText == Str(<<"h", "i">>)
LongText == Str([i \in 1..(PreviewLen + 1) |-> "x"])

m1 == Msg("m1", 1, ShortText, "d1")
m2 == Msg("m2", 1, LongText, "d2")
m3 == Msg("m3", 2, Undefined, "d3")
AllMessages == {m1, m2, m3}

\* What GET /chats/ may answer with in res.data.chats.
ChatListResults == {<<>>, <<Chat(1)>>}

\* What GET /messages/{chatId} may answer with in res.data.messages.
Histories(c) ==
    IF c = 1 THEN {<<>>, <<m1>>, <<m1, m2>>} ELSE {<<>>, <<m3>>}

Signal(ev, c) == [ev |-> ev, chat_id |-> c]

\* ---------------------------------------------------------- pages/Chat.jsx
\* The join/leave effect's cleanup, mutated: no leave_chat is emitted.
LeaveOnCleanupMissing(socks, cleanup) == socks

\* The cleanup of the join/leave effect: leave_chat for the conversation and
\* on the socket the effect closed over.
LeaveOnCleanup(socks, cleanup) ==
    IF cleanup # Null
    THEN Emit(socks, cleanup.sock, Signal("leave_chat", cleanup.chat_id))
    ELSE socks

\* ChatWindow's effect on [chat], mutated: the typing set is kept.
AfterChatChangeKept(prev) == prev

\* ChatWindow's effect on [chat]: setTypingUsers([]).
AfterChatChange(prev) == <<>>

\* A handler after the cleanup of the effect that registered it, mutated:
\* socket.off is missing.
OffOnCleanupMissing(handler) == handler

\* A handler after the cleanup of the effect that registered it:
\* socket.off(event, handler).
OffOnCleanup(handler) == Null

\* The effects with selectedChat (in ChatWindow: chat) among their
\* dependencies, run for the new value `chat` of selectedChat: the
\* new_message effect (off, then on with the new closure), the join/leave
\* effect (cleanup, then join_chat and fetchMessages), and in ChatWindow the
\* user_typing effect (off, then on) and setTypingUsers([]).
SelectionEffects(chat) ==
    LET joins == socket # NoSocket /\ chat # Null
        left == LeaveOnCleanup(sockets, joinCleanup)
        joined == IF joins
                  THEN Emit(left, socket, Signal("join_chat", chat._id))
                  ELSE left
    IN  /\ WithinBuffers(joined)
        /\ joins => msgFetches[chat._id] < MaxPending
        /\ sockets' = joined
        /\ newMessageHandler' =
              IF socket # NoSocket
              THEN [sock |-> socket, selectedChat |-> chat]
              ELSE Null
        /\ joinCleanup' =
              IF joins THEN [sock |-> socket, chat_id |-> chat._id] ELSE Null
        /\ msgFetches' =
              IF joins THEN [msgFetches EXCEPT ![chat._id] = @ + 1]
              ELSE msgFetches
        /\ typingHandler' =
              IF joins THEN [sock |-> socket, chat_id |-> chat._id] ELSE Null
        /\ typingUsers' = AfterChatChange(typingUsers)
        /\ typingSignalled' = {}
        /\ typingCleared' = (typingUsers # <<>>)
        /\ lateSignals' = lateSignals \cup
              (IF joinCleanup # Null
               THEN Late(sockets, joinCleanup.sock, "leave_chat") ELSE {})

\* Chat mounts, and ChatWindow in it: state is initial, then the mount
\* effects run in order: connectSocket(token) if there is a token,
\* fetchChats(), the new_message effect, the join/leave effect (nothing is
\* selected yet).  Timers and requests of an earlier instance stay pending.
Mount(token) ==
    /\ ~mounted
    /\ (token # NoToken /\ socket = NoSocket) =>
            Cardinality(DOMAIN sockets) < MaxSockets
    /\ LET r == IF token # NoToken
                THEN connectSocket(socket, sockets, token)
                ELSE [socket |-> socket, sockets |-> sockets, call |-> lastCall]
       IN   /\ socket' = r.socket
            /\ sockets' = r.sockets
            /\ lastCall' = r.call
            /\ newMessageHandler' =
                  IF r.socket # NoSocket
                  THEN [sock |-> r.socket, selectedChat |-> Null]
                  ELSE Null
    /\ mounted' = TRUE
    /\ chats' = <<>>
    /\ selectedChat' = Null
    /\ selectedEntry' = 0
    /\ messages' = <<>>
    /\ loadingChats' = TRUE
    /\ chatsFetch' = TRUE
    /\ msgFetches' = [c \in ChatIds |-> 0]
    /\ joinCleanup' = Null
    /\ input' = <<>>
    /\ sending' = FALSE
    /\ typingUsers' = <<>>
    /\ typingTimeoutRef' = Null
    /\ typingHandler' = Null
    /\ typingSignalled' = {}
    /\ typingCleared' = FALSE
    /\ lateSignals' = {}
    /\ lastSend' = "none"
    /\ UNCHANGED <<timers, sends, typingStarts, typingStops>>

\* Chat unmounts: the cleanups run in the order of the effects:
\* disconnectSocket(), socket.off("new_message"), then leave_chat on the
\* socket the join/leave effect closed over; in ChatWindow
\* socket.off("user_typing").  The components' state is gone; what a
\* request still in flight sets afterwards is dropped by React.  No cleanup
\* clears the typing timer.
Unmount ==
    /\ mounted
    /\ LET r == disconnectSocket(socket, sockets) IN
        /\ socket' = r.socket
        /\ sockets' = Collect(LeaveOnCleanup(r.sockets, joinCleanup),
                               {t.sock : t \in timers})
        /\ lastCall' = r.call
    /\ mounted' = FALSE
    /\ chats' = <<>>
    /\ selectedChat' = Null
    /\ selectedEntry' = 0
    /\ messages' = <<>>
    /\ loadingChats' = TRUE
    /\ chatsFetch' = FALSE
    /\ msgFetches' = [c \in ChatIds |-> 0]
    /\ newMessageHandler' = OffOnCleanup(newMessageHandler)
    /\ joinCleanup' = Null
    /\ input' = <<>>
    /\ sending' = FALSE
    /\ typingUsers' = <<>>
    /\ typingTimeoutRef' = Null
    /\ typingHandler' = OffOnCleanup(typingHandler)
    /\ typingSignalled' = {}
    /\ typingCleared' = FALSE
    /\ lateSignals' = lateSignals \cup
          (IF joinCleanup # Null
           THEN Late(disconnectSocket(socket, sockets).sockets,
                     joinCleanup.sock, "leave_chat")
           ELSE {})
    /\ sends' = {[r EXCEPT !.own = FALSE] : r \in sends}
    /\ lastSend' = "none"
    /\ UNCHANGED <<timers, typingStarts, typingStops>>

\* fetchChats resolves: setChats(res.data.chats || []).
FetchChatsDone(result) ==
    /\ mounted /\ chatsFetch
    /\ chats' = result
    /\ selectedEntry' = 0
    /\ loadingChats' = FALSE
    /\ chatsFetch' = FALSE
    /\ UNCHANGED <<socket, sockets, lastCall, mounted, selectedChat, messages,
                   msgFetches, newMessageHandler, joinCleanup>>
    /\ UNCHANGED winVars

\* fetchChats rejects: the error is logged.
FetchChatsFail ==
    /\ mounted /\ chatsFetch
    /\ loadingChats' = FALSE
    /\ chatsFetch' = FALSE
    /\ UNCHANGED <<socket, sockets, lastCall, mounted, chats, selectedChat,
                   selectedEntry, messages, msgFetches, newMessageHandler,
                   joinCleanup>>
    /\ UNCHANGED winVars

\* The message list after fetchMessages(chatId) resolves with `result`:
\* setMessages(res.data.messages || []), whatever is selected by then.
AfterFetchMessages(prev, sel, chatId, result) == result

\* fetchMessages(chatId) resolves.
FetchMessagesDone(c, result) ==
    /\ mounted /\ msgFetches[c] > 0
    /\ messages' = AfterFetchMessages(messages, selectedChat, c, result)
    /\ msgFetches' = [msgFetches EXCEPT ![c] = @ - 1]
    /\ UNCHANGED <<socket, sockets, lastCall, mounted, chats, selectedChat,
                   selectedEntry, loadingChats, chatsFetch, newMessageHandler,
                   joinCleanup>>
    /\ UNCHANGED winVars

\* fetchMessages(chatId) rejects: the error is logged.
FetchMessagesFail(c) ==
    /\ mounted /\ msgFetches[c] > 0
    /\ msgFetches' = [msgFetches EXCEPT ![c] = @ - 1]
    /\ UNCHANGED <<socket, sockets, lastCall, mounted, chats, selectedChat,
                   selectedEntry, messages, loadingChats, chatsFetch,
                   newMessageHandler, joinCleanup>>
    /\ UNCHANGED winVars

\* handleNewMessage, first half: the message list after the push `msg`, with
\* `sel` the selectedChat the handler closed over.
AppendMessage(prev, sel, msg) ==
    IF sel # Null /\ msg.chat_id = sel._id THEN Append(prev, msg) ELSE prev

\* handleNewMessage's list update, mutated: only the selected conversation's
\* entry is updated.
ProjectMessageSelectedOnly(prev, msg) ==
    [i \in 1..Len(prev) |->
        IF prev[i]._id = msg.chat_id
           /\ selectedChat # Null /\ selectedChat._id = msg.chat_id
        THEN [prev[i] EXCEPT
                !.last_message_preview =
                    IF msg.content = Undefined THEN Undefined
                    ELSE Slice(msg.content, PreviewLen),
                !.last_message_at = msg.created_at]
        ELSE prev[i]]

\* handleNewMessage's list update, mutated: the updated conversation moves
\* to the front of the list (a re-sort by recency).
ProjectMessageResorted(prev, msg) ==
    LET hit == SelectSeq(prev, LAMBDA c : c._id = msg.chat_id)
        rest == SelectSeq(prev, LAMBDA c : c._id # msg.chat_id)
    IN  [i \in 1..Len(hit) |->
            [hit[i] EXCEPT
                !.last_message_preview =
                    IF msg.content = Undefined THEN Undefined
                    ELSE Slice(msg.content, PreviewLen),
                !.last_message_at = msg.created_at]] \o rest

\* handleNewMessage, second half: the conversation list after the push.
ProjectMessage(prev, msg) ==
    [i \in 1..Len(prev) |->
        IF prev[i]._id = msg.chat_id
        THEN [prev[i] EXCEPT
                !.last_message_preview =
                    IF msg.content = Undefined THEN Undefined
                    ELSE Slice(msg.content, PreviewLen),
                !.last_message_at = msg.created_at]
        ELSE prev[i]]

\* The server pushes new_message{msg} on the connection the handler is
\* registered on.
NewMessage(msg) ==
    /\ mounted
    /\ newMessageHandler # Null
    /\ sockets[newMessageHandler.sock].state = "connected"
    /\ messages' = AppendMessage(messages, newMessageHandler.selectedChat, msg)
    /\ Len(messages') <= MaxMsgs
    /\ chats' = ProjectMessage(chats, msg)
    /\ selectedEntry' =
          IF selectedEntry # 0 /\ chats[selectedEntry]._id = msg.chat_id
          THEN 0 ELSE selectedEntry
    /\ UNCHANGED <<socket, sockets, lastCall, mounted, selectedChat,
                   loadingChats, chatsFetch, msgFetches, newMessageHandler,
                   joinCleanup>>
    /\ UNCHANGED winVars

\* handleSelectChat(chats[i]): setSelectedChat(chat); setMessages([]).  React
\* keeps the state, and runs no effect, when chat is the object selected
\* already.
SelectChat(i) ==
    /\ mounted
    /\ i \in 1..Len(chats)
    /\ messages' = <<>>
    /\ IF selectedEntry # i
       THEN /\ selectedChat' = chats[i]
            /\ selectedEntry' = i
            /\ SelectionEffects(chats[i])
       ELSE UNCHANGED <<selectedChat, selectedEntry, sockets, msgFetches,
                        newMessageHandler, joinCleanup, typingHandler,
                        typingUsers, typingSignalled, typingCleared,
                        lateSignals>>
    /\ UNCHANGED <<socket, lastCall, mounted, chats, loadingChats, chatsFetch,
                   input, sending, typingTimeoutRef, timers, sends,
                   typingStarts, typingStops, lastSend>>

\* handleChatCreated's list update, mutated: the new conversation is put at
\* the end of the list.
AfterChatCreatedAtEnd(prev, newChat) == Append(prev, newChat)

\* handleChatCreated's list update: setChats((prev) => [newChat, ...prev]).
AfterChatCreated(prev, newChat) == <<newChat>> \o prev

\* Sidebar.startChat resolves and calls handleChatCreated(res.data):
\* setChats([newChat, ...prev]); setSelectedChat(newChat).
ChatCreated(id) ==
    /\ mounted
    /\ Len(chats) < MaxChats
    /\ chats' = AfterChatCreated(chats, Chat(id))
    /\ selectedChat' = Chat(id)
    /\ selectedEntry' = 1
    /\ SelectionEffects(Chat(id))
    /\ UNCHANGED <<socket, lastCall, mounted, messages, loadingChats,
                   chatsFetch, input, sending, typingTimeoutRef, timers, sends,
                   typingStarts, typingStops, lastSend>>

\* ------------------------------------------------ components/ChatWindow.jsx
\* String.prototype.trim()
RECURSIVE TrimLeft(_)
TrimLeft(str) ==
    IF str # <<>> /\ Head(str) = " " THEN TrimLeft(Tail(str)) ELSE str

RECURSIVE TrimRight(_)
TrimRight(str) ==
    IF str # <<>> /\ str[Len(str)] = " "
    THEN TrimRight(SubSeq(str, 1, Len(str) - 1)) ELSE str

Trim(str) == TrimRight(TrimLeft(str))

\* The typing_stop count of conversation c after one more typing_stop.
CountStop(stops, c) == [stops EXCEPT ![c] = @ + 1]

\* The input's onChange: setInput(e.target.value); handleTyping().
\* handleTyping emits typing_start, clears the timer typingTimeoutRef holds
\* and arms a new one that closes over the socket and the conversation.
InputChange(text) ==
    /\ mounted
    /\ selectedChat # Null
    /\ text # input
    /\ input' = text
    /\ IF socket # NoSocket
       THEN LET timer == [sock |-> socket, chat_id |-> selectedChat._id] IN
            /\ sockets' = Emit(sockets, socket,
                               Signal("typing_start", selectedChat._id))
            /\ WithinBuffers(sockets')
            /\ timers' = (timers \ {typingTimeoutRef}) \cup {timer}
            /\ typingTimeoutRef' = timer
            /\ typingStarts' = typingStarts \cup {selectedChat._id}
            /\ typingStops' = [typingStops EXCEPT ![selectedChat._id] = 0]
       ELSE UNCHANGED <<sockets, timers, typingTimeoutRef, typingStarts,
                        typingStops>>
    /\ UNCHANGED <<socket, lastCall>>
    /\ UNCHANGED chatVars
    /\ lastSend' = "none"
    /\ UNCHANGED <<sending, typingUsers, typingHandler, sends, typingSignalled,
                   typingCleared, lateSignals>>

\* A typing timer fires: typing_stop on the socket and for the conversation
\* it closed over.
TimerFires(timer) ==
    /\ timer \in timers
    /\ typingStops[timer.chat_id] < MaxStops
    /\ sockets' = Emit(sockets, timer.sock, Signal("typing_stop", timer.chat_id))
    /\ WithinBuffers(sockets')
    /\ timers' = timers \ {timer}
    /\ typingStops' = CountStop(typingStops, timer.chat_id)
    /\ lateSignals' = lateSignals \cup Late(sockets, timer.sock, "typing_stop")
    /\ UNCHANGED <<socket, lastCall>>
    /\ UNCHANGED chatVars
    /\ UNCHANGED <<input, sending, typingUsers, typingTimeoutRef, typingHandler,
                   sends, typingStarts, typingSignalled, typingCleared,
                   lastSend>>

\* handleSend's guard, mutated: the `sending` test is missing.
MaySendWhileSending(text, chat, busy) ==
    ~(Trim(text) = <<>> \/ chat = Null)

\* handleSend's guard: `if (!input.trim() || !chat || sending) return`.
MaySend(text, chat, busy) ==
    ~(Trim(text) = <<>> \/ chat = Null \/ busy)

\* handleSend up to its await: nothing happens on empty input or while
\* sending; otherwise setSending(true) and the request is issued.
Submit ==
    /\ mounted
    /\ selectedChat # Null
    /\ IF ~MaySend(input, selectedChat, sending)
       THEN UNCHANGED <<sending, sends>>
       ELSE /\ sending' = TRUE
            /\ sends' = sends \cup {[chat_id |-> selectedChat._id,
                                     content |-> Trim(input), own |-> TRUE]}
    /\ UNCHANGED <<socket, sockets, lastCall>>
    /\ UNCHANGED chatVars
    /\ UNCHANGED <<input, typingUsers, typingTimeoutRef, timers, typingHandler,
                   typingStarts, typingStops, typingSignalled, typingCleared,
                   lateSignals, lastSend>>

\* sendMessage resolves: setInput(""), typing_stop on getSocket() if there is
\* one, setSending(false).  The timer is left armed.
SendOk(req) ==
    /\ req \in sends
    /\ sends' = sends \ {req}
    /\ IF req.own
       THEN input' = <<>> /\ sending' = FALSE
       ELSE UNCHANGED <<input, sending>>
    /\ IF socket # NoSocket
       THEN /\ typingStops[req.chat_id] < MaxStops
            /\ sockets' = Emit(sockets, socket, Signal("typing_stop", req.chat_id))
            /\ WithinBuffers(sockets')
            /\ typingStops' = CountStop(typingStops, req.chat_id)
       ELSE UNCHANGED <<sockets, typingStops>>
    /\ UNCHANGED <<socket, lastCall>>
    /\ UNCHANGED chatVars
    /\ lastSend' = IF req.own THEN "ok" ELSE lastSend
    /\ UNCHANGED <<typingUsers, typingTimeoutRef, timers, typingHandler,
                   typingStarts, typingSignalled, typingCleared,
                   lateSignals>>

\* The input after a failed send, mutated: it is cleared as after a
\* successful one.
InputAfterSendFailCleared(prev) == <<>>

\* The input after a failed send: the catch block only logs.
InputAfterSendFail(prev) == prev

\* sendMessage rejects: the error is logged, setSending(false).
SendFail(req) ==
    /\ req \in sends
    /\ sends' = sends \ {req}
    /\ IF req.own
       THEN input' = InputAfterSendFail(input) /\ sending' = FALSE
       ELSE UNCHANGED <<input, sending>>
    /\ lastSend' = IF req.own THEN "failed" ELSE lastSend
    /\ UNCHANGED <<socket, sockets, lastCall>>
    /\ UNCHANGED chatVars
    /\ UNCHANGED <<typingUsers, typingTimeoutRef, timers, typingHandler,
                   typingStarts, typingStops, typingSignalled, typingCleared,
                   lateSignals>>

\* The user_typing handler, mutated: the prev.includes test is missing.
AfterUserTypingNoIncludes(prev, chatId, data) ==
    IF data.chat_id # chatId THEN prev
    ELSE IF data.user_id = currentUser THEN prev
    ELSE IF data.is_typing THEN Append(prev, data.user_id)
         ELSE SelectSeq(prev, LAMBDA id : id # data.user_id)

\* The user_typing handler: typingUsers after the signal `data`, with
\* chatId the conversation the handler closed over.
AfterUserTyping(prev, chatId, data) ==
    IF data.chat_id # chatId THEN prev
    ELSE IF data.user_id = currentUser THEN prev
    ELSE IF data.is_typing
         THEN IF \E i \in 1..Len(prev) : prev[i] = data.user_id
              THEN prev ELSE Append(prev, data.user_id)
         ELSE SelectSeq(prev, LAMBDA id : id # data.user_id)

\* The server pushes user_typing{chat_id, user_id, is_typing} on the
\* connection the handler is registered on.
UserTyping(data) ==
    /\ mounted
    /\ typingHandler # Null
    /\ sockets[typingHandler.sock].state = "connected"
    /\ typingUsers' = AfterUserTyping(typingUsers, typingHandler.chat_id, data)
    /\ typingSignalled' =
          IF selectedChat = Null \/ data.chat_id # selectedChat._id
          THEN typingSignalled
          ELSE IF data.is_typing THEN typingSignalled \cup {data.user_id}
          ELSE typingSignalled \ {data.user_id}
    /\ UNCHANGED <<socket, sockets, lastCall>>
    /\ UNCHANGED chatVars
    /\ UNCHANGED <<input, sending, typingTimeoutRef, timers, typingHandler,
                   sends, typingStarts, typingStops, typingCleared,
                   lateSignals, lastSend>>

\* -------------------------------------------------------------------- init
Init ==
    /\ socket = NoSocket
    /\ sockets = NoSockets
    /\ lastCall = "none"
    /\ mounted = FALSE
    /\ chats = <<>>
    /\ selectedChat = Null
    /\ selectedEntry = 0
    /\ messages = <<>>
    /\ loadingChats = TRUE
    /\ chatsFetch = FALSE
    /\ msgFetches = [c \in ChatIds |-> 0]
    /\ newMessageHandler = Null
    /\ joinCleanup = Null
    /\ input = <<>>
    /\ sending = FALSE
    /\ typingUsers = <<>>
    /\ typingTimeoutRef = Null
    /\ timers = {}
    /\ typingHandler = Null
    /\ sends = {}
    /\ typingStarts = {}
    /\ typingStops = [c \in ChatIds |-> 0]
    /\ typingSignalled = {}
    /\ typingCleared = FALSE
    /\ lateSignals = {}
    /\ lastSend = "none"

\* The socket module under any sequence of calls and connection events.
NextSocket ==
    \/ \E token \in Tokens : CallConnect(token)
    \/ CallDisconnect
    \/ \E s \in DOMAIN sockets : ConnectOk(s)
    \/ \E s \in DOMAIN sockets : ConnectError(s)
    \/ \E s \in DOMAIN sockets : RetryFail(s)
    \/ \E s \in DOMAIN sockets : TransportLost(s)

SpecSocket == Init /\ [][NextSocket]_vars

\* The Chat page with its socket, under any interleaving of mounting and
\* unmounting, selections, creations, fetch results, pushes, and the
\* connection being established, lost and re-established.  Failed attempts
\* and the retry budget, which touch the socket object only, are left to
\* SpecSocket.
Next ==
    \/ \E token \in {NoToken, "t1"} : Mount(token)
    \/ Unmount
    \/ \E result \in ChatListResults : FetchChatsDone(result)
    \/ FetchChatsFail
    \/ \E c \in ChatIds : \E result \in Histories(c) : FetchMessagesDone(c, result)
    \/ \E c \in ChatIds : FetchMessagesFail(c)
    \/ \E msg \in AllMessages : NewMessage(msg)
    \/ \E i \in 1..MaxChats : SelectChat(i)
    \/ \E id \in ChatIds : ChatCreated(id)
    \/ \E s \in DOMAIN sockets : ConnectOk(s)
    \/ \E s \in DOMAIN sockets : TransportLost(s)

Spec == Init /\ [][Next]_vars

\* ChatWindow in a mounted Chat page: local typing and sending, with the
\* selection changes and connection events they interleave with.
NextTyping ==
    \/ \E token \in {NoToken, "t1"} : Mount(token)
    \/ \E result \in ChatListResults : FetchChatsDone(result)
    \/ \E c \in ChatIds : FetchMessagesFail(c)
    \/ \E i \in 1..MaxChats : SelectChat(i)
    \/ \E id \in ChatIds : ChatCreated(id)
    \/ \E s \in DOMAIN sockets : ConnectOk(s)
    \/ \E s \in DOMAIN sockets : TransportLost(s)
    \/ \E text \in Inputs : InputChange(text)
    \/ \E timer \in timers : TimerFires(timer)
    \/ Submit
    \/ \E req \in sends : SendOk(req)
    \/ \E req \in sends : SendFail(req)

SpecTyping == Init /\ [][NextTyping]_vars

\* What the server may push as user_typing.
TypingSignals == [chat_id : ChatIds, user_id : Users, is_typing : BOOLEAN]

\* The Chat page and ChatWindow under the server's pushes, with mounting and
\* unmounting, selections, creations and connection events.  The pushes are
\* any user_typing signal and the new_message m1; histories and the other
\* messages are left to Spec.
NextPush ==
    \/ \E token \in {NoToken, "t1"} : Mount(token)
    \/ Unmount
    \/ \E result \in ChatListResults : FetchChatsDone(result)
    \/ \E c \in ChatIds : FetchMessagesFail(c)
    \/ \E msg \in {m1} : NewMessage(msg)
    \/ \E i \in 1..MaxChats : SelectChat(i)
    \/ \E id \in ChatIds : ChatCreated(id)
    \/ \E s \in DOMAIN sockets : ConnectOk(s)
    \/ \E s \in DOMAIN sockets : TransportLost(s)
    \/ \E data \in TypingSignals : UserTyping(data)

SpecPush == Init /\ [][NextPush]_vars

\* Sending in ChatWindow over the life of the Chat page: input, submits and
\* the outcome of each send-message request, with the page mounting and
\* unmounting and conversations being created and selected.
NextSend ==
    \/ \E token \in {NoToken, "t1"} : Mount(token)
    \/ Unmount
    \/ \E c \in ChatIds : FetchMessagesFail(c)
    \/ \E id \in ChatIds : ChatCreated(id)
    \/ \E text \in Inputs : InputChange(text)
    \/ Submit
    \/ \E req \in sends : SendOk(req)
    \/ \E req \in sends : SendFail(req)

SpecSend == Init /\ [][NextSend]_vars

\* The signals of the Chat page over its life: joining and leaving, typing
\* and the typing timer, with the page mounting and unmounting and the
\* connection being established.
NextTeardown ==
    \/ \E token \in {NoToken, "t1"} : Mount(token)
    \/ Unmount
    \/ \E c \in ChatIds : FetchMessagesFail(c)
    \/ \E id \in ChatIds : ChatCreated(id)
    \/ \E s \in DOMAIN sockets : ConnectOk(s)
    \/ \E text \in Inputs : InputChange(text)
    \/ \E timer \in timers : TimerFires(timer)

SpecTeardown == Init /\ [][NextTeardown]_vars

\* A conversation selected from the fetched list, its history fetch and the
\* pushes that race with it.  Every selection empties the displayed list, so
\* that what is displayed while a history fetch is in flight was pushed
\* since the selection.
NextHistory ==
    \/ \E token \in {NoToken, "t1"} : Mount(token)
    \/ \E result \in ChatListResults : FetchChatsDone(result)
    \/ \E i \in 1..MaxChats : SelectChat(i)
    \/ \E s \in DOMAIN sockets : ConnectOk(s)
    \/ \E msg \in AllMessages : NewMessage(msg)
    \/ \E c \in ChatIds : \E result \in Histories(c) : FetchMessagesDone(c, result)
    \/ \E c \in ChatIds : FetchMessagesFail(c)
    \/ \E s \in DOMAIN sockets : TransportLost(s)
    \/ Unmount

SpecHistory == Init /\ [][NextHistory]_vars

\* ------------------------------------------------------------------ claims
\* The rooms the server holds for socket s after each prefix of what the
\* socket has sent and still buffers.
RoomsAfter(s, k) ==
    DeliverAll(sockets[s].rooms, SubSeq(sockets[s].sendBuffer, 1, k))

\* C1: whatever the sequence of selections, a connection has at most one
\* room joined at any point of its signal stream (sent or still buffered):
\* a join_chat for another conversation always comes after the leave_chat
\* for the one joined before.
C1_SingleSubscription ==
    \A s \in DOMAIN sockets :
        \A k \in 0..Len(sockets[s].sendBuffer) :
            Cardinality(RoomsAfter(s, k)) <= 1

\* C1 witness: conversation 1 was selected (its history fetch is still in
\* flight), then conversation 2, and the connection's only room is 2.
C1_Switched ==
    /\ socket # NoSocket
    /\ sockets[socket].state = "connected"
    /\ sockets[socket].rooms = {2}
    /\ msgFetches[1] = 1
    /\ joinCleanup # Null /\ joinCleanup.chat_id = 2

\* C2: a new_message push whose identifier is already in the displayed list
\* leaves the list unchanged, so the list never holds an identifier twice.
C2_IdempotentMerge ==
    \A i, j \in 1..Len(messages) :
        messages[i]._id = messages[j]._id => i = j

\* C3: the result of a history fetch for a conversation that is no longer
\* the selected one does not alter the displayed list.
C3_StaleFetchDiscarded ==
    [][\A c \in ChatIds : \A result \in Histories(c) :
          (FetchMessagesDone(c, result) /\ selectedChat # Null
             /\ selectedChat._id # c)
          => messages' = messages]_vars

\* C4: every displayed message belongs to the selected conversation, and
\* nothing is displayed when nothing is selected.
C4_MessagesOfSelection ==
    /\ selectedChat = Null => messages = <<>>
    /\ selectedChat # Null =>
          \A i \in 1..Len(messages) : messages[i].chat_id = selectedChat._id

\* What handleNewMessage stores as the preview of msg.
PreviewOf(msg) ==
    IF msg.content = Undefined THEN Undefined ELSE Slice(msg.content, PreviewLen)

\* C5: while Chat is mounted with a socket, the new_message handler is
\* registered on it whatever the selection, and what the handler makes of
\* the conversation list on a push sets the preview and the timestamp of
\* every entry of the pushed conversation, whether that conversation,
\* another one or none is selected.
C5_SelectionIndependentProjection ==
    /\ (mounted /\ socket # NoSocket)
          => (newMessageHandler # Null /\ newMessageHandler.sock = socket)
    /\ \A msg \in AllMessages :
          LET after == ProjectMessage(chats, msg) IN
          /\ Len(after) = Len(chats)
          /\ \A i \in 1..Len(chats) :
                chats[i]._id = msg.chat_id =>
                    /\ after[i].last_message_preview = PreviewOf(msg)
                    /\ after[i].last_message_at = msg.created_at

\* C5 witness: conversation 2 is selected and the list, which is the fetched
\* one, shows the preview of a push for conversation 1.  The list was fetched
\* after conversation 2 was created and selected (a creation after the fetch
\* would have left conversation 2 in the list), and its previews start
\* empty, so the push arrived while conversation 2 was selected.
C5_PreviewWhileOtherSelected ==
    /\ selectedChat # Null /\ selectedChat._id = 2
    /\ chats = <<[_id |-> 1,
                  last_message_preview |-> Slice(LongText, PreviewLen),
                  last_message_at |-> "d2"]>>
    /\ Len(Slice(LongText, PreviewLen).chars) < Len(LongText.chars)

\* C6: after the last input in a conversation exactly one typing_stop is
\* emitted for it: never a second one.
C6_TypingStopOnce ==
    \A c \in typingStarts : typingStops[c] <= 1

\* C7: a selection change away from a conversation whose typing timer is
\* pending emits typing_stop for it at once and disarms the timer.
C7_StopOnSwitch ==
    [][(/\ selectedChat # Null /\ selectedChat' # Null
        /\ selectedChat'._id # selectedChat._id
        /\ typingTimeoutRef \in timers
        /\ typingTimeoutRef.chat_id = selectedChat._id)
       => /\ \A t \in timers' : t.chat_id # selectedChat._id
          /\ typingStops'[selectedChat._id] = typingStops[selectedChat._id] + 1]_vars

\* The socket objects not closed by socket.disconnect().
OpenSockets == {s \in DOMAIN sockets : sockets[s].state # "closed"}

\* C8: at most one connection object exists at a time, it is the one the
\* module refers to, and connectSocket with a connection in place returns
\* that connection and opens no other.
C8_SingleConnection ==
    /\ [](Cardinality(OpenSockets) <= 1 /\ \A s \in OpenSockets : s = socket)
    /\ [][\A token \in Tokens :
            (CallConnect(token) /\ socket # NoSocket)
            => socket' = socket /\ sockets' = sockets]_vars

\* C8 witness: connectSocket was called with a connection in place, after an
\* earlier connection had been torn down.
C8_ConnectedTwice ==
    /\ lastCall = "connect:existing"
    /\ socket # NoSocket
    /\ Cardinality(DOMAIN sockets) >= 2

\* C9: a second disconnectSocket() in succession finds no connection and
\* changes nothing, and so does any disconnectSocket() without a connection.
C9_IdempotentTeardown ==
    /\ [](LET once == disconnectSocket(socket, sockets)
              twice == disconnectSocket(once.socket, once.sockets)
          IN  /\ twice.socket = once.socket
              /\ twice.sockets = once.sockets
              /\ twice.call = "disconnect:none")
    /\ [][(CallDisconnect /\ socket = NoSocket)
            => /\ UNCHANGED <<socket, sockets>>
               /\ lastCall' = "disconnect:none"]_vars

\* C9 witness: disconnectSocket() was called right after a disconnectSocket()
\* that tore a connection down.
C9_DisconnectedTwice ==
    /\ lastCall = "disconnect:none"
    /\ DOMAIN sockets # {}
    /\ OpenSockets = {}

\* C10: a socket makes at most reconnectionAttempts automatic attempts after
\* a failure; with the budget used up it is disconnected and stays so, making
\* no attempt, until disconnectSocket() closes it for a new connectSocket().
C10_BoundedReconnection ==
    /\ [](\A s \in DOMAIN sockets :
            /\ sockets[s].attempts <= reconnectionAttempts
            /\ sockets[s].state = "failed"
                  => sockets[s].attempts = reconnectionAttempts)
    /\ [][\A s \in DOMAIN sockets :
            sockets[s].state = "failed" =>
                \/ sockets'[s] = sockets[s]
                \/ (CallDisconnect /\ sockets'[s].state = "closed")]_vars

\* C10 witness: a socket has used up its attempts.
C10_BudgetExhausted ==
    \E s \in DOMAIN sockets :
        sockets[s].state = "failed" /\ sockets[s].attempts = reconnectionAttempts

\* C11: connectSocket called when no connection is live (none was opened,
\* the last one was torn down, or the automatic attempts were used up with
\* no disconnectSocket() since) opens a new connection authenticated with the
\* credential given, and never returns a dead one.
C11_ConnectOpensWhenDead ==
    \A token \in Tokens :
        (socket = NoSocket \/ sockets[socket].state \in {"failed", "closed"}) =>
            LET r == connectSocket(socket, sockets, token) IN
            /\ r.socket # NoSocket
            /\ r.sockets[r.socket].state = "opening"
            /\ r.sockets[r.socket].auth = token

\* C12: selecting the conversation whose id is the selected one already
\* changes nothing: no leave_chat or join_chat is emitted, no history fetch
\* is started, and the displayed message list stays as it is, also when the
\* list entry was replaced by a push since the conversation was selected.
C12_ReselectIsNoOp ==
    [][\A i \in 1..MaxChats :
          (SelectChat(i) /\ selectedChat # Null /\ chats[i]._id = selectedChat._id)
          => /\ sockets' = sockets
             /\ msgFetches' = msgFetches
             /\ messages' = messages]_vars

\* C13: once Chat is torn down the module holds no socket, every socket
\* object is closed, and neither the new_message nor the user_typing handler
\* is registered any more, so that no push can reach the lists or the typing
\* set after teardown.
C13_TeardownSilences ==
    ~mounted =>
        /\ socket = NoSocket
        /\ OpenSockets = {}
        /\ newMessageHandler = Null
        /\ typingHandler = Null

\* C13 witness: Chat was torn down with a connection in place (and with it
\* the new_message handler registered).
C13_TornDown ==
    /\ ~mounted
    /\ lastCall = "disconnect:live"

\* C14: while the connection is not established (the module holds no socket,
\* or the socket is opening, reconnecting or given up) no join_chat has been
\* emitted on it (none waits in its buffer), the server holds no room for
\* it, and no push is applied to the lists.
C14_NoJoinWhileDisconnected ==
    /\ [](\A s \in DOMAIN sockets :
            sockets[s].state # "connected" =>
                /\ sockets[s].rooms = {}
                /\ \A k \in 1..Len(sockets[s].sendBuffer) :
                      sockets[s].sendBuffer[k].ev # "join_chat")
    /\ [][(\E msg \in AllMessages : NewMessage(msg))
            => (socket # NoSocket /\ sockets[socket].state = "connected")]_vars

\* C15: when a conversation-creation result for conversation c arrives, the
\* conversation list becomes c followed by the previous list in its order, c
\* becomes the selection, and on the socket leave_chat for the conversation
\* selected before (if any) goes out before join_chat for c.
C15_CreatedFirstAndSelected ==
    [][\A id \in ChatIds :
          ChatCreated(id) =>
            /\ chats' = <<Chat(id)>> \o chats
            /\ selectedChat' = Chat(id)
            /\ socket # NoSocket =>
                  LET leave == IF selectedChat # Null
                               THEN <<Signal("leave_chat", selectedChat._id)>>
                               ELSE <<>>
                      sigs == leave \o <<Signal("join_chat", id)>>
                  IN  IF sockets[socket].state = "connected"
                      THEN /\ sockets'[socket].rooms =
                                  DeliverAll(sockets[socket].rooms, sigs)
                           /\ sockets'[socket].rooms = {id}
                      ELSE sockets'[socket].sendBuffer =
                                  sockets[socket].sendBuffer \o sigs]_vars

\* C15 witness: conversation 2 was created with conversation 1 in the list
\* and selected before it; 2 is at the front, selected, and the only room.
C15_CreatedOverSelection ==
    /\ chats = <<Chat(2), Chat(1)>>
    /\ selectedChat = Chat(2) /\ selectedEntry = 1
    /\ msgFetches[1] = 1
    /\ socket # NoSocket
    /\ sockets[socket].state = "connected"
    /\ sockets[socket].rooms = {2}

\* C16: when the selection changes from one conversation to a different one
\* the displayed message list is empty at once, and it stays empty until the
\* history fetch of the new conversation resolves or a push for the new
\* conversation arrives.
C16_EmptyUntilLoaded ==
    [][/\ (/\ selectedChat # Null /\ selectedChat' # Null
           /\ selectedChat'._id # selectedChat._id)
          => messages' = <<>>
       /\ (/\ selectedChat # Null /\ selectedChat' = selectedChat
           /\ messages = <<>> /\ messages' # <<>>)
          => \/ \E result \in Histories(selectedChat._id) :
                    FetchMessagesDone(selectedChat._id, result)
             \/ \E msg \in AllMessages :
                    msg.chat_id = selectedChat._id /\ NewMessage(msg)]_vars

\* C17: the typing set is cleared when the selection changes: the change
\* leaves it empty, it stays empty until a user_typing signal for the newly
\* selected conversation arrives, and it never holds a user who has not
\* signalled typing in the selected conversation since it was selected.
C17_TypingClearedOnSwitch ==
    /\ [](\A i \in 1..Len(typingUsers) : typingUsers[i] \in typingSignalled)
    /\ [][/\ selectedChat' # selectedChat => typingUsers' = <<>>
          /\ (typingUsers = <<>> /\ typingUsers' # <<>>)
             => \E data \in TypingSignals :
                    /\ UserTyping(data)
                    /\ selectedChat # Null
                    /\ data.chat_id = selectedChat._id
                    /\ data.is_typing]_vars

\* C17 witness: the selection changed while a remote user was shown typing,
\* and the typing set of the conversation selected now is empty, with its
\* handler registered on the connected socket.
C17_ClearedWhileTyping ==
    /\ typingCleared
    /\ selectedChat # Null
    /\ typingUsers = <<>>
    /\ typingHandler # Null
    /\ sockets[typingHandler.sock].state = "connected"

\* The users in a typing set.
TypingSet(seq) == {seq[i] : i \in 1..Len(seq)}

\* C18: while a conversation stays selected the typing set holds exactly the
\* users other than the current user whose latest user_typing signal for
\* that conversation had is_typing true, each once; a signal for another
\* conversation or from the current user, and an is_typing=false signal from
\* a user not in the set, leave the set as it is.
C18_TypingSetIsLatestSignals ==
    /\ TypingSet(typingUsers) = typingSignalled \ {currentUser}
    /\ \A i, j \in 1..Len(typingUsers) : typingUsers[i] = typingUsers[j] => i = j
    /\ selectedChat # Null =>
          \A data \in TypingSignals :
              LET after == AfterUserTyping(typingUsers, selectedChat._id, data) IN
              /\ (data.chat_id # selectedChat._id \/ data.user_id = currentUser)
                    => after = typingUsers
              /\ (~data.is_typing /\ data.user_id \notin TypingSet(typingUsers))
                    => after = typingUsers
              /\ (data.chat_id = selectedChat._id /\ data.user_id # currentUser)
                    => TypingSet(after) =
                          IF data.is_typing
                          THEN TypingSet(typingUsers) \cup {data.user_id}
                          ELSE TypingSet(typingUsers) \ {data.user_id}

\* C18 witness: two remote users are shown typing in the selected
\* conversation, and the current user's own signal was received too.
C18_TwoTyping ==
    /\ Len(typingUsers) = 2
    /\ typingSignalled = Users

\* C19: a new_message push for conversation X changes, in the conversation
\* list, only the preview and the timestamp of X: the list keeps its length
\* and its order, every other entry is as before, X's timestamp is the
\* message's, and X's preview is the first PreviewLen characters of the
\* content.
C19_PushChangesOnlyItsEntry ==
    \A msg \in AllMessages :
        LET after == ProjectMessage(chats, msg) IN
        /\ Len(after) = Len(chats)
        /\ \A i \in 1..Len(chats) :
              /\ after[i]._id = chats[i]._id
              /\ chats[i]._id # msg.chat_id => after[i] = chats[i]
              /\ chats[i]._id = msg.chat_id =>
                    /\ after[i] =
                          [chats[i] EXCEPT
                              !.last_message_preview = after[i].last_message_preview,
                              !.last_message_at = msg.created_at]
                    /\ msg.content # Undefined =>
                          LET text == msg.content.chars
                              shown == after[i].last_message_preview.chars
                          IN  /\ Len(shown) <= PreviewLen
                              /\ Len(shown) = Len(text) \/ Len(shown) = PreviewLen
                              /\ shown = SubSeq(text, 1, Len(shown))

\* C19 witness: with conversation 2 before conversation 1 in the list, a push
\* of the long message for conversation 1 has set that entry's preview, cut
\* to PreviewLen characters, and its timestamp; the entry of conversation 2
\* and the order are as they were.
C19_SecondEntryUpdated ==
    /\ Len(chats) = 2
    /\ chats[1] = Chat(2)
    /\ chats[2]._id = 1
    /\ chats[2].last_message_at = m2.created_at
    /\ chats[2].last_message_preview # Null
    /\ Len(chats[2].last_message_preview.chars) = PreviewLen
    /\ Len(m2.content.chars) > PreviewLen

\* C20: a new_message push for a conversation id that is not in the
\* conversation list is ignored: the conversation list and the displayed
\* message list are both as before.
C20_UnknownChatIgnored ==
    [][\A msg \in AllMessages :
          (NewMessage(msg) /\ \A i \in 1..Len(chats) : chats[i]._id # msg.chat_id)
          => (chats' = chats /\ messages' = messages)]_vars

\* C21: a failed fetch degrades to an empty result: when a history fetch
\* fails the displayed message list is what an empty history would have made
\* it, and when the conversation-list fetch fails the conversation list is
\* empty.
C21_FailedFetchIsEmptyResult ==
    [][/\ \A c \in ChatIds :
            FetchMessagesFail(c)
            => messages' = AfterFetchMessages(messages, selectedChat, c, <<>>)
       /\ FetchChatsFail => chats' = <<>>]_vars

\* C22: when a send-message request fails the input is left as it is, no
\* request is issued in its place, nothing is emitted and no message is added
\* to the displayed list; the input is emptied only by a send that succeeded
\* (or by the user).
C22_FailedSendKeepsInput ==
    [][/\ \A req \in sends :
            SendFail(req)
            => /\ input' = input
               /\ sends' = sends \ {req}
               /\ messages' = messages
               /\ sockets' = sockets
       /\ (mounted /\ mounted' /\ input # <<>> /\ input' = <<>>)
            => \/ \E req \in sends : req.own /\ SendOk(req)
               \/ InputChange(<<>>)]_vars

\* C22 witness: the page's last send-message request failed, nothing was
\* typed since, and the text is still in the input.
C22_TextKeptAfterFailure ==
    /\ mounted
    /\ lastSend = "failed"
    /\ ~sending
    /\ Trim(input) # <<>>

\* C23: no join_chat, leave_chat, typing_start or typing_stop is emitted on a
\* socket after socket.disconnect() closed it: at teardown the leave_chat for
\* the selected conversation goes out before the disconnect, and a typing
\* timer still pending emits no typing_stop afterwards.
C23_NoSignalAfterDisconnect ==
    lateSignals = {}

\* C24: whenever the page's socket is connected and a conversation is
\* selected, that conversation is the room joined on the connection, also
\* after the connection dropped and was re-established automatically.
C24_RejoinedOnReconnect ==
    (/\ mounted /\ socket # NoSocket /\ selectedChat # Null
     /\ sockets[socket].state = "connected")
    => sockets[socket].rooms = {selectedChat._id}

\* C25: a push for the selected conversation that arrived while the
\* conversation's history fetch was in flight is still in the displayed list
\* once the fetch has completed, whether the fetched history holds it or not.
C25_PushSurvivesFetch ==
    [][\A c \in ChatIds : \A result \in Histories(c) :
          (FetchMessagesDone(c, result) /\ selectedChat # Null
             /\ selectedChat._id = c)
          => \A i \in 1..Len(messages) :
                messages[i].chat_id = c
                => \E j \in 1..Len(messages') : messages'[j] = messages[i]]_vars

\* C26: whenever a conversation is selected it is in the conversation list,
\* however the completion of the conversation-list fetch interleaves with
\* creation results and selections.
C26_SelectionIsListed ==
    selectedChat # Null =>
        \E i \in 1..Len(chats) : chats[i]._id = selectedChat._id

\* C27: the conversation list never holds two entries with the same
\* conversation id, after any sequence of list fetch completions, creation
\* results (also one that returns a conversation listed already) and pushes.
C27_NoDuplicateChats ==
    \A i, j \in 1..Len(chats) : chats[i]._id = chats[j]._id => i = j

\* Whether a request's content is text: not empty and not only whitespace.
IsText(content) == \E k \in 1..Len(content) : content[k] # " "

\* C28: at most one send-message request is in flight at any time, and no
\* request is in flight for empty or whitespace-only input or for no
\* conversation.
C28_OneSendInFlight ==
    /\ Cardinality(sends) <= 1
    /\ \A req \in sends : IsText(req.content) /\ req.chat_id \in ChatIds

\* C28, amended: at most one send-message request issued by the mounted page
\* is in flight at any time (a request issued before a teardown may still be
\* in flight beside it), it is in flight exactly while `sending` is set, and
\* no request is in flight for empty or whitespace-only input or for no
\* conversation.
C28_OneSendPerPage ==
    /\ Cardinality({req \in sends : req.own}) <= 1
    /\ sending <=> (\E req \in sends : req.own)
    /\ \A req \in sends : IsText(req.content) /\ req.chat_id \in ChatIds
    /\ (mounted /\ selectedChat # Null /\ sending)
          => ~MaySend(input, selectedChat, sending)

\* C28 witness: a request of the mounted page is in flight, `sending` is
\* set, text is in the input again, and a request issued before the last
\* teardown is in flight too.
C28_SendingBesideOldRequest ==
    /\ mounted /\ sending
    /\ IsText(input)
    /\ \E req \in sends : req.own
    /\ \E req \in sends : ~req.own

====
